---- MODULE Spec2Model ----
(***************************************************************************)
(* kernsweep: detection of installed kernels, obsolescence analysis,      *)
(* header matching, the removal safety gate and the command-line workflow. *)
(*                                                                         *)
(* A Python str is modelled as a sequence of one-character strings, so     *)
(* that prefix tests, replace(), rsplit() and the regular expressions of   *)
(* the source are computed character by character.                         *)
(***************************************************************************)
EXTENDS Integers, Sequences, FiniteSets, TLC

(***************************************************************************)
(* Characters and the str methods the source uses                          *)
(***************************************************************************)
Digits == {"0", "1", "2", "3", "4", "5", "6", "7", "8", "9"}

LowerLetters ==
    {"a", "b", "c", "d", "e", "f", "g", "h", "i", "j", "k", "l", "m",
     "n", "o", "p", "q", "r", "s", "t", "u", "v", "w", "x", "y", "z"}

UpperLetters == {"E", "N", "S", "Y"}

\* The characters of the model's strings in increasing code-point order.
CharOrder ==
    <<" ", "+", "-", ".",
      "0", "1", "2", "3", "4", "5", "6", "7", "8", "9",
      "E", "N", "S", "Y", "_",
      "a", "b", "c", "d", "e", "f", "g", "h", "i", "j", "k", "l", "m",
      "n", "o", "p", "q", "r", "s", "t", "u", "v", "w", "x", "y", "z">>

Ord(c) == CHOOSE i \in 1..Len(CharOrder) : CharOrder[i] = c

DigitValue(c) == Ord(c) - Ord("0")

StartsWith(s, p) == Len(p) <= Len(s) /\ SubSeq(s, 1, Len(p)) = p

EndsWith(s, p) ==
    Len(p) <= Len(s) /\ SubSeq(s, Len(s) - Len(p) + 1, Len(s)) = p

\* str.find: index of the first occurrence of sub in s (1-based), 0 if none.
Find(s, sub) ==
    LET hits == {i \in 1..(Len(s) - Len(sub) + 1) :
                    SubSeq(s, i, i + Len(sub) - 1) = sub}
    IN  IF hits = {} THEN 0 ELSE CHOOSE i \in hits : \A j \in hits : i <= j

\* `sub in s` on two strings.
Contains(s, sub) == Find(s, sub) # 0

\* str.replace(old, new): every non-overlapping occurrence, left to right.
RECURSIVE Replace(_, _, _)
Replace(s, old, new) ==
    LET i == Find(s, old)
    IN  IF i = 0
        THEN s
        ELSE SubSeq(s, 1, i - 1) \o new
             \o Replace(SubSeq(s, i + Len(old), Len(s)), old, new)

\* str.rsplit('-', 1): one part when there is no dash, else the two parts
\* around the last dash.
RSplitDash(s) ==
    LET dashes == {i \in 1..Len(s) : s[i] = "-"}
    IN  IF dashes = {}
        THEN <<s>>
        ELSE LET i == CHOOSE d \in dashes : \A e \in dashes : e <= d
             IN  <<SubSeq(s, 1, i - 1), SubSeq(s, i + 1, Len(s))>>

\* str.isalnum(): non-empty and every character a letter or a digit.
IsAlnum(s) ==
    /\ Len(s) > 0
    /\ \A i \in 1..Len(s) : s[i] \in Digits \cup LowerLetters \cup UpperLetters

\* str.islower(): at least one cased character and no uppercase one.
IsLower(s) ==
    /\ \E i \in 1..Len(s) : s[i] \in LowerLetters
    /\ \A i \in 1..Len(s) : s[i] \notin UpperLetters

\* str.lower() on one character.
ToLowerChar(c) ==
    CASE c = "E" -> "e"
      [] c = "N" -> "n"
      [] c = "S" -> "s"
      [] c = "Y" -> "y"
      [] OTHER -> c

\* str.lower()
Lower(s) == [i \in 1..Len(s) |-> ToLowerChar(s[i])]

\* str.strip(): leading and trailing whitespace removed.
RECURSIVE Strip(_)
Strip(s) ==
    IF Len(s) > 0 /\ s[1] = " " THEN Strip(Tail(s))
    ELSE IF Len(s) > 0 /\ s[Len(s)] = " " THEN Strip(SubSeq(s, 1, Len(s) - 1))
    ELSE s

\* Length of the run of digits of s that starts at index i (regex \d+).
RECURSIVE DigitRun(_, _)
DigitRun(s, i) ==
    IF i <= Len(s) /\ s[i] \in Digits THEN 1 + DigitRun(s, i + 1) ELSE 0

\* int() of a non-empty string of digits.
RECURSIVE ParseInt(_)
ParseInt(ds) ==
    IF Len(ds) = 0
    THEN 0
    ELSE 10 * ParseInt(SubSeq(ds, 1, Len(ds) - 1)) + DigitValue(ds[Len(ds)])

\* str() of a natural number.
RECURSIVE IntToStr(_)
IntToStr(n) ==
    IF n < 10
    THEN <<CharOrder[Ord("0") + n]>>
    ELSE IntToStr(n \div 10) \o <<CharOrder[Ord("0") + (n % 10)]>>

\* Ordinal comparison of two strings: TRUE when a < b.
RECURSIVE StrLess(_, _)
StrLess(a, b) ==
    IF Len(b) = 0 THEN FALSE
    ELSE IF Len(a) = 0 THEN TRUE
    ELSE IF a[1] # b[1] THEN Ord(a[1]) < Ord(b[1])
    ELSE StrLess(Tail(a), Tail(b))

\* re.match(r'^\d+\.', s)
MatchDigitsDot(s) ==
    LET n == DigitRun(s, 1)
    IN  n >= 1 /\ n < Len(s) /\ s[n + 1] = "."

\* re.match(r'^\d+\.\d+\.\d+', s)
MatchThreeComponents(s) ==
    LET n1 == DigitRun(s, 1)
        n2 == DigitRun(s, n1 + 2)
        n3 == DigitRun(s, n1 + n2 + 3)
    IN  /\ n1 >= 1 /\ n1 < Len(s) /\ s[n1 + 1] = "."
        /\ n2 >= 1 /\ n1 + n2 + 1 < Len(s) /\ s[n1 + n2 + 2] = "."
        /\ n3 >= 1

(***************************************************************************)
(* Package-name conventions and the version strings of the model           *)
(***************************************************************************)
LinuxImagePrefix ==
    <<"l", "i", "n", "u", "x", "-", "i", "m", "a", "g", "e", "-">>
LinuxHeadersPrefix ==
    <<"l", "i", "n", "u", "x", "-", "h", "e", "a", "d", "e", "r", "s", "-">>
ProxmoxKernelPrefix ==
    <<"p", "r", "o", "x", "m", "o", "x", "-", "k", "e", "r", "n", "e", "l",
      "-">>
ProxmoxHeadersPrefix ==
    <<"p", "r", "o", "x", "m", "o", "x", "-", "h", "e", "a", "d", "e", "r",
      "s", "-">>
SignedSuffix == <<"-", "s", "i", "g", "n", "e", "d">>
CommonSuffix == <<"-", "c", "o", "m", "m", "o", "n">>

Generic == <<"-", "g", "e", "n", "e", "r", "i", "c">>
Lowlatency == <<"-", "l", "o", "w", "l", "a", "t", "e", "n", "c", "y">>
Amd64 == <<"-", "a", "m", "d", "6", "4">>
Pve == <<"-", "p", "v", "e">>
Ubuntu515 == <<"5", ".", "1", "5", ".", "0", "-">>
Debian61 == <<"6", ".", "1", ".", "0", "-">>
Rpi61247 ==
    <<"6", ".", "1", "2", ".", "4", "7", "+", "r", "p", "t", "-", "r", "p",
      "i", "-">>
Pve68 == <<"6", ".", "8", ".">>

V_5_15_0_52_generic == Ubuntu515 \o <<"5", "2">> \o Generic
V_5_15_0_60_generic == Ubuntu515 \o <<"6", "0">> \o Generic
V_5_15_0_69_generic == Ubuntu515 \o <<"6", "9">> \o Generic
V_5_15_0_75_generic == Ubuntu515 \o <<"7", "5">> \o Generic
V_5_15_0_82_generic == Ubuntu515 \o <<"8", "2">> \o Generic
V_5_15_0_82_lowlatency == Ubuntu515 \o <<"8", "2">> \o Lowlatency
V_5_15_0_91_generic == Ubuntu515 \o <<"9", "1">> \o Generic
V_6_1_0_9_amd64 == Debian61 \o <<"9">> \o Amd64
V_6_1_0_10_amd64 == Debian61 \o <<"1", "0">> \o Amd64
V_6_12_47_rpt_rpi_2712 == Rpi61247 \o <<"2", "7", "1", "2">>
V_6_12_47_rpt_rpi_v8 == Rpi61247 \o <<"v", "8">>
V_6_8_4_2_pve == Pve68 \o <<"4", "-", "2">> \o Pve
V_6_8_4_3_pve == Pve68 \o <<"4", "-", "3">> \o Pve
V_6_8_8_1_pve == Pve68 \o <<"8", "-", "1">> \o Pve
V_6_8_8_2_pve == Pve68 \o <<"8", "-", "2">> \o Pve
V_6_8_8_4_pve == Pve68 \o <<"8", "-", "4">> \o Pve
V_6_8_12_1_pve == Pve68 \o <<"1", "2", "-", "1">> \o Pve
V_6_8_12_2_pve == Pve68 \o <<"1", "2", "-", "2">> \o Pve
V_6_8_12_4_pve == Pve68 \o <<"1", "2", "-", "4">> \o Pve

\* One line of `dpkg -l`: the status column and the package-name column.
DpkgLine(status, name) == [status |-> status, name |-> name]

\* Kernel packages a system may list, in dpkg's order (sorted by name): an
\* Ubuntu series with two flavors of one build, Debian builds 9 and 10,
\* two Raspberry Pi boards of one release, and Proxmox kernels (signed and
\* unsigned) with their meta-package.
KernelListing ==
    << DpkgLine("rc", LinuxImagePrefix \o V_5_15_0_52_generic),
       DpkgLine("ii", LinuxImagePrefix \o V_5_15_0_60_generic),
       DpkgLine("ii", LinuxImagePrefix \o V_5_15_0_69_generic),
       DpkgLine("ii", LinuxImagePrefix \o V_5_15_0_75_generic),
       DpkgLine("ii", LinuxImagePrefix \o V_5_15_0_82_generic),
       DpkgLine("ii", LinuxImagePrefix \o V_5_15_0_82_lowlatency),
       DpkgLine("ii", LinuxImagePrefix \o V_5_15_0_91_generic),
       DpkgLine("ii", LinuxImagePrefix \o V_6_1_0_10_amd64),
       DpkgLine("ii", LinuxImagePrefix \o V_6_1_0_9_amd64),
       DpkgLine("ii", LinuxImagePrefix \o V_6_12_47_rpt_rpi_2712),
       DpkgLine("ii", LinuxImagePrefix \o V_6_12_47_rpt_rpi_v8),
       DpkgLine("ii", LinuxImagePrefix \o SubSeq(Generic, 2, Len(Generic))),
       DpkgLine("ii", ProxmoxKernelPrefix \o <<"6", ".", "8">>),
       DpkgLine("ii", ProxmoxKernelPrefix \o V_6_8_12_1_pve \o SignedSuffix),
       DpkgLine("ii", ProxmoxKernelPrefix \o V_6_8_12_2_pve \o SignedSuffix),
       DpkgLine("ii", ProxmoxKernelPrefix \o V_6_8_12_4_pve),
       DpkgLine("ii", ProxmoxKernelPrefix \o V_6_8_12_4_pve \o SignedSuffix),
       DpkgLine("ii", ProxmoxKernelPrefix \o V_6_8_4_2_pve \o SignedSuffix),
       DpkgLine("ii", ProxmoxKernelPrefix \o V_6_8_4_3_pve \o SignedSuffix),
       DpkgLine("ii", ProxmoxKernelPrefix \o V_6_8_8_1_pve \o SignedSuffix),
       DpkgLine("ii", ProxmoxKernelPrefix \o V_6_8_8_2_pve \o SignedSuffix),
       DpkgLine("ii", ProxmoxKernelPrefix \o V_6_8_8_4_pve \o SignedSuffix) >>

(***************************************************************************)
(* detector.py                                                             *)
(***************************************************************************)
KernelInfo(version, package_name) ==
    [version |-> version, package_name |-> package_name,
     is_running |-> FALSE, is_latest |-> FALSE]

\* The character class [\d\.\-] of the detector's patterns.
VersionLeadChars == Digits \cup {".", "-"}

\* linux_pattern: ^ii\s+(linux-image-[\d\.\-]+\S*)\s+
MatchesLinuxImage(line) ==
    /\ line.status = "ii"
    /\ StartsWith(line.name, LinuxImagePrefix)
    /\ Len(line.name) > Len(LinuxImagePrefix)
    /\ line.name[Len(LinuxImagePrefix) + 1] \in VersionLeadChars

\* proxmox_pattern: ^ii\s+(proxmox-kernel-([\d\.\-]+\S+?)(?:-signed)?)\s+
MatchesProxmoxKernel(line) ==
    /\ line.status = "ii"
    /\ StartsWith(line.name, ProxmoxKernelPrefix)
    /\ Len(line.name) > Len(ProxmoxKernelPrefix) + 1
    /\ line.name[Len(ProxmoxKernelPrefix) + 1] \in VersionLeadChars

\* Group 2 of proxmox_pattern: the lazy \S+? stops before a final -signed
\* when what precedes it still has a lead character and one more.
ProxmoxVersionGroup(name) ==
    LET rest == SubSeq(name, Len(ProxmoxKernelPrefix) + 1, Len(name))
        cut == SubSeq(rest, 1, Len(rest) - Len(SignedSuffix))
    IN  IF EndsWith(rest, SignedSuffix) /\ Len(cut) >= 2 THEN cut ELSE rest

\* The records one dpkg line contributes to the kernel list (none or one).
KernelsOfLine(line) ==
    IF MatchesLinuxImage(line)
    THEN LET version == Replace(line.name, LinuxImagePrefix, <<>>)
         IN  IF MatchDigitsDot(version)
             THEN <<KernelInfo(version, line.name)>>
             ELSE <<>>
    ELSE IF MatchesProxmoxKernel(line)
    THEN LET version == ProxmoxVersionGroup(line.name)
         IN  IF MatchThreeComponents(version)
             THEN <<KernelInfo(version, line.name)>>
             ELSE <<>>
    ELSE <<>>

RECURSIVE get_installed_kernels(_)
get_installed_kernels(lines) ==
    IF lines = <<>>
    THEN <<>>
    ELSE KernelsOfLine(Head(lines)) \o get_installed_kernels(Tail(lines))

\* linux_pattern of get_installed_headers: ^ii\s+(linux-headers-[\d\.\-]+\S*)\s+
MatchesLinuxHeaders(line) ==
    /\ line.status = "ii"
    /\ StartsWith(line.name, LinuxHeadersPrefix)
    /\ Len(line.name) > Len(LinuxHeadersPrefix)
    /\ line.name[Len(LinuxHeadersPrefix) + 1] \in VersionLeadChars

\* proxmox_pattern of get_installed_headers:
\* ^ii\s+(proxmox-headers-[\d\.\-]+\S+)\s+
MatchesProxmoxHeaders(line) ==
    /\ line.status = "ii"
    /\ StartsWith(line.name, ProxmoxHeadersPrefix)
    /\ Len(line.name) > Len(ProxmoxHeadersPrefix) + 1
    /\ line.name[Len(ProxmoxHeadersPrefix) + 1] \in VersionLeadChars

\* The header packages one dpkg line contributes (none or one).
HeadersOfLine(line) ==
    IF MatchesLinuxHeaders(line)
    THEN IF MatchDigitsDot(Replace(line.name, LinuxHeadersPrefix, <<>>))
         THEN <<line.name>>
         ELSE <<>>
    ELSE IF MatchesProxmoxHeaders(line)
    THEN IF MatchDigitsDot(Replace(line.name, ProxmoxHeadersPrefix, <<>>))
         THEN <<line.name>>
         ELSE <<>>
    ELSE <<>>

RECURSIVE get_installed_headers(_)
get_installed_headers(lines) ==
    IF lines = <<>>
    THEN <<>>
    ELSE HeadersOfLine(Head(lines)) \o get_installed_headers(Tail(lines))

(***************************************************************************)
(* analyzer.py                                                             *)
(***************************************************************************)
\* Mutant of extract_base_version: a last part of underscores alone is a
\* flavor too.
extract_base_version_underscores_alone(version) ==
    LET parts == RSplitDash(version)
    IN  IF /\ Len(parts) = 2
           /\ \A i \in 1..Len(parts[2]) :
                 parts[2][i] \in Digits \cup LowerLetters \cup UpperLetters
                                    \cup {"_"}
        THEN <<parts[1], parts[2]>>
        ELSE <<version, <<>>>>

\* Returns <<base, flavor>>.
extract_base_version(version) ==
    LET parts == RSplitDash(version)
    IN  IF /\ Len(parts) = 2
           /\ IsAlnum(Replace(parts[2], <<"_">>, <<>>))
           /\ ~MatchDigitsDot(parts[2])
        THEN <<parts[1], parts[2]>>
        ELSE <<version, <<>>>>

\* The groups of 'digits, separator' the pattern of compare_kernel_versions
\* reads from position pos on, one group for every separator in seps and a
\* last group of digits: acc extended with their integers, or <<>> when the
\* string does not match.
RECURSIVE MatchGroups(_, _, _, _)
MatchGroups(s, pos, seps, acc) ==
    LET n == DigitRun(s, pos)
    IN  IF n = 0 THEN <<>>
        ELSE IF seps = <<>>
        THEN Append(acc, ParseInt(SubSeq(s, pos, pos + n - 1)))
        ELSE IF pos + n <= Len(s) /\ s[pos + n] = Head(seps)
        THEN MatchGroups(s, pos + n + 1, Tail(seps),
                         Append(acc, ParseInt(SubSeq(s, pos, pos + n - 1))))
        ELSE <<>>

\* re.match(r'^(\d+)\.(\d+)\.(\d+)-(\d+)', s): the four groups as integers,
\* or <<>> when the string does not match.
VersionKey(s) == MatchGroups(s, 1, <<".", ".", "-">>, <<>>)

\* Mutant of CompareParts: the loop never finds two sequences equal.
RECURSIVE CompareParts_NeverEqual(_, _, _)
CompareParts_NeverEqual(a, b, i) ==
    IF i > Len(a) THEN 1
    ELSE IF a[i] < b[i] THEN -1
    ELSE IF a[i] > b[i] THEN 1
    ELSE CompareParts_NeverEqual(a, b, i + 1)

\* The component loop of compare_kernel_versions over zip(v1_parts, v2_parts).
RECURSIVE CompareParts(_, _, _)
CompareParts(a, b, i) ==
    IF i > Len(a) THEN 0
    ELSE IF a[i] < b[i] THEN -1
    ELSE IF a[i] > b[i] THEN 1
    ELSE CompareParts(a, b, i + 1)

\* The comparison once both patterns have been tried.
CompareMatched(version1, version2, match1, match2) ==
    IF match1 = <<>> \/ match2 = <<>>
    THEN IF StrLess(version1, version2) THEN -1
         ELSE IF StrLess(version2, version1) THEN 1
         ELSE 0
    ELSE CompareParts(match1, match2, 1)

\* Mutant of compare_kernel_versions: the strings are always compared as
\* strings.
compare_kernel_versions_as_strings(version1, version2) ==
    CompareMatched(version1, version2, <<>>, <<>>)

compare_kernel_versions(version1, version2) ==
    CompareMatched(version1, version2,
                   VersionKey(version1), VersionKey(version2))

\* `x in list` on a Python list.
InList(x, list) == \E i \in 1..Len(list) : list[i] = x

\* f"linux-image-{version}": the package name the safety gate looks for.
ImagePackageOf(version) == LinuxImagePrefix \o version

\* Mutant of KernelImagesToRemove: every proposed package counts as a kernel
\* image, header packages included.
KernelImagesToRemove_AllPackages(packages_to_remove) == packages_to_remove

\* Mutant of KernelImagesToRemove: every linux-* package counts, image or
\* headers.
KernelImagesToRemove_AnyLinuxPackage(packages_to_remove) ==
    SelectSeq(packages_to_remove,
              LAMBDA pkg : Contains(pkg, SubSeq(LinuxImagePrefix, 1, 6)))

\* [pkg for pkg in packages_to_remove if "linux-image-" in pkg]
KernelImagesToRemove(packages_to_remove) ==
    SelectSeq(packages_to_remove, LAMBDA pkg : Contains(pkg, LinuxImagePrefix))

\* The bulk-removal threshold of the safety gate.
BulkThreshold == 5

\* The messages of the safety gate: literal text around the formatted value.
RunningMarkedMsg(running_kernel) ==
    <<"Safety check failed: Running kernel ", running_kernel,
      " is marked for removal">>

LatestMarkedMsg(latest_kernel) ==
    <<"Safety check failed: Latest kernel ", latest_kernel,
      " is marked for removal">>

NoKernelsRemainMsg ==
    <<"Safety check failed: No kernels would remain after removal">>

ExcessiveMsg(count) ==
    <<"Safety check warning: Attempting to remove ", IntToStr(count),
      " kernels at once. This seems excessive.">>

\* The empty error message of a safe proposal.
NoMsg == <<>>

\* Mutant of validate_removal_safety: the two counting checks run before the
\* running-kernel and latest-kernel checks.
validate_removal_safety_counts_first(packages_to_remove, running_kernel, latest_kernel, all_kernels) ==
    LET running_pkg == ImagePackageOf(running_kernel)
        latest_pkg == ImagePackageOf(latest_kernel)
        kernel_images_to_remove == KernelImagesToRemove(packages_to_remove)
        remaining_kernels == Len(all_kernels) - Len(kernel_images_to_remove)
    IN  IF remaining_kernels < 1
        THEN <<FALSE, NoKernelsRemainMsg>>
        ELSE IF Len(kernel_images_to_remove) > BulkThreshold
        THEN <<FALSE, ExcessiveMsg(Len(kernel_images_to_remove))>>
        ELSE IF InList(running_pkg, packages_to_remove)
        THEN <<FALSE, RunningMarkedMsg(running_kernel)>>
        ELSE IF InList(latest_pkg, packages_to_remove)
        THEN <<FALSE, LatestMarkedMsg(latest_kernel)>>
        ELSE <<TRUE, NoMsg>>

\* Mutant of validate_removal_safety: the latest-kernel check runs before
\* the running-kernel check.
validate_removal_safety_latest_first(packages_to_remove, running_kernel, latest_kernel, all_kernels) ==
    LET running_pkg == ImagePackageOf(running_kernel)
        latest_pkg == ImagePackageOf(latest_kernel)
        kernel_images_to_remove == KernelImagesToRemove(packages_to_remove)
        remaining_kernels == Len(all_kernels) - Len(kernel_images_to_remove)
    IN  IF InList(latest_pkg, packages_to_remove)
        THEN <<FALSE, LatestMarkedMsg(latest_kernel)>>
        ELSE IF InList(running_pkg, packages_to_remove)
        THEN <<FALSE, RunningMarkedMsg(running_kernel)>>
        ELSE IF remaining_kernels < 1
        THEN <<FALSE, NoKernelsRemainMsg>>
        ELSE IF Len(kernel_images_to_remove) > BulkThreshold
        THEN <<FALSE, ExcessiveMsg(Len(kernel_images_to_remove))>>
        ELSE <<TRUE, NoMsg>>

\* Mutant of validate_removal_safety: the bulk-removal check is missing.
validate_removal_safety_no_bulk_check(packages_to_remove, running_kernel, latest_kernel, all_kernels) ==
    LET running_pkg == ImagePackageOf(running_kernel)
        latest_pkg == ImagePackageOf(latest_kernel)
        kernel_images_to_remove == KernelImagesToRemove(packages_to_remove)
        remaining_kernels == Len(all_kernels) - Len(kernel_images_to_remove)
    IN  IF InList(running_pkg, packages_to_remove)
        THEN <<FALSE, RunningMarkedMsg(running_kernel)>>
        ELSE IF InList(latest_pkg, packages_to_remove)
        THEN <<FALSE, LatestMarkedMsg(latest_kernel)>>
        ELSE IF remaining_kernels < 1
        THEN <<FALSE, NoKernelsRemainMsg>>
        ELSE <<TRUE, NoMsg>>

\* Returns <<is_safe, error_message>>.
validate_removal_safety(packages_to_remove, running_kernel, latest_kernel, all_kernels) ==
    LET running_pkg == ImagePackageOf(running_kernel)
        latest_pkg == ImagePackageOf(latest_kernel)
        kernel_images_to_remove == KernelImagesToRemove(packages_to_remove)
        remaining_kernels == Len(all_kernels) - Len(kernel_images_to_remove)
    IN  IF InList(running_pkg, packages_to_remove)
        THEN <<FALSE, RunningMarkedMsg(running_kernel)>>
        ELSE IF InList(latest_pkg, packages_to_remove)
        THEN <<FALSE, LatestMarkedMsg(latest_kernel)>>
        ELSE IF remaining_kernels < 1
        THEN <<FALSE, NoKernelsRemainMsg>>
        ELSE IF Len(kernel_images_to_remove) > BulkThreshold
        THEN <<FALSE, ExcessiveMsg(Len(kernel_images_to_remove))>>
        ELSE <<TRUE, NoMsg>>

AnalysisResult(running_kernel, latest_kernel, obsolete_kernels, obsolete_headers, protected_kernels) ==
    [running_kernel |-> running_kernel, latest_kernel |-> latest_kernel,
     obsolete_kernels |-> obsolete_kernels,
     obsolete_headers |-> obsolete_headers,
     protected_kernels |-> protected_kernels]

\* Mutant of FindRunning: with no record flagged, the first record is
\* taken as the running one.
FindRunning_DefaultFirst(kernels) ==
    LET flagged == {i \in 1..Len(kernels) : kernels[i].is_running}
    IN  IF flagged = {} THEN 1
        ELSE CHOOSE i \in flagged : \A j \in flagged : i <= j

\* Index of the first record flagged running, 0 when there is none.
FindRunning(kernels) ==
    LET flagged == {i \in 1..Len(kernels) : kernels[i].is_running}
    IN  IF flagged = {} THEN 0
        ELSE CHOOSE i \in flagged : \A j \in flagged : i <= j

\* The fold that selects the latest record: index i replaces the candidate
\* only when its version compares strictly greater.
RECURSIVE FindLatest(_, _, _)
FindLatest(kernels, i, candidate) ==
    IF i > Len(kernels)
    THEN candidate
    ELSE FindLatest(kernels, i + 1,
            IF compare_kernel_versions(kernels[i].version,
                                       kernels[candidate].version) > 0
            THEN i
            ELSE candidate)

\* Mutant of IsProtectedKernel: only the running record is protected.
IsProtectedKernel_RunningOnly(kernel, protected_versions, protected_base_versions) ==
    kernel.is_running

\* Mutant of IsProtectedKernel: only the exact versions are protected, not
\* their same-base siblings.
IsProtectedKernel_ExactVersionOnly(kernel, protected_versions, protected_base_versions) ==
    kernel.version \in protected_versions

\* The partition test of analyze_kernels.
IsProtectedKernel(kernel, protected_versions, protected_base_versions) ==
    \/ kernel.version \in protected_versions
    \/ extract_base_version(kernel.version)[1] \in protected_base_versions

PackageNames(kernels) == [i \in 1..Len(kernels) |-> kernels[i].package_name]

RunningNotFoundMsg == <<"Running kernel not found in installed kernels list">>

Returned(kernels, result) ==
    [status |-> "returned", kernels |-> kernels, result |-> result]

Raised(kernels, exception, message) ==
    [status |-> "raised", kernels |-> kernels, exception |-> exception,
     message |-> message]

\* Mutant of CollapseLatest: the record the fold selects stays the latest.
CollapseLatest_Never(kernels, r, folded) == folded

\* The collapse of a latest record that shares the running record's base
\* version: the running record is then the latest one.
CollapseLatest(kernels, r, folded) ==
    IF extract_base_version(kernels[r].version)[1]
         = extract_base_version(kernels[folded].version)[1]
    THEN r
    ELSE folded

\* Mutant of MarkLatest: every record of the latest record's version is
\* marked.
MarkLatest_EveryRecordOfVersion(kernels, l) ==
    [i \in 1..Len(kernels) |->
        [kernels[i] EXCEPT !.is_latest = (kernels[i].version = kernels[l].version)]]

\* latest_kernel.is_latest = True
MarkLatest(kernels, l) == [kernels EXCEPT ![l].is_latest = TRUE]

\* protected_versions of the records at r and l.
ProtectedVersions(kernels, r, l) == {kernels[r].version, kernels[l].version}

\* protected_base_versions of the records at r and l. The source takes the
\* latest base before the collapse; the collapse happens only when it equals
\* the running base, so the set is the same.
ProtectedBaseVersions(kernels, r, l) ==
    {extract_base_version(kernels[r].version)[1],
     extract_base_version(kernels[l].version)[1]}

\* Mutant of Partition: the records of a side are collected last first.
Partition_LastFirst(kernels, protected_versions, protected_base_versions, side) ==
    LET picked == SelectSeq(kernels,
                    LAMBDA k : IsProtectedKernel(k, protected_versions,
                                   protected_base_versions) = side)
    IN  [i \in 1..Len(picked) |-> picked[Len(picked) + 1 - i]]

\* The records of the list on one side of the partition, in input order.
Partition(kernels, protected_versions, protected_base_versions, side) ==
    SelectSeq(kernels,
        LAMBDA k : IsProtectedKernel(k, protected_versions,
                                     protected_base_versions) = side)

\* obsolete_kernels for running record r and latest record l.
ObsoleteKernels(kernels, r, l) ==
    PackageNames(Partition(kernels, ProtectedVersions(kernels, r, l),
                           ProtectedBaseVersions(kernels, r, l), FALSE))

\* protected_kernels for running record r and latest record l.
ProtectedKernels(kernels, r, l) ==
    PackageNames(Partition(kernels, ProtectedVersions(kernels, r, l),
                           ProtectedBaseVersions(kernels, r, l), TRUE))

\* The end of analyze_kernels: the error of a failed safety verdict or the
\* result.
GateOutcome(kernels, r, l, obsolete_kernels, protected_kernels, verdict) ==
    IF ~verdict[1]
    THEN Raised(kernels, "ValueError", verdict[2])
    ELSE Returned(kernels,
            AnalysisResult(kernels[r].version, kernels[l].version,
                           obsolete_kernels, <<>>, protected_kernels))

\* The safety gate on the partition.
Gate(kernels, r, l, obsolete_kernels, protected_kernels) ==
    GateOutcome(kernels, r, l, obsolete_kernels, protected_kernels,
        validate_removal_safety(obsolete_kernels, kernels[r].version,
                                kernels[l].version, kernels))

\* The partition of the marked list and the gate.
Classify(kernels, r, l) ==
    Gate(kernels, r, l, ObsoleteKernels(kernels, r, l),
         ProtectedKernels(kernels, r, l))

\* analyze_kernels from the search for the running record on: r is the
\* index of the first record flagged running, 0 when there is none.
\* is_latest is set on the record object before the safety gate runs, so a
\* raised error leaves it.
AnalyzeFrom(kernels, r) ==
    IF r = 0
    THEN Raised(kernels, "ValueError", RunningNotFoundMsg)
    ELSE Classify(MarkLatest(kernels,
                    CollapseLatest(kernels, r, FindLatest(kernels, 2, 1))),
                  r, CollapseLatest(kernels, r, FindLatest(kernels, 2, 1)))

\* analyze_kernels past its empty-list guard.
AnalyzeNonEmpty(kernels) == AnalyzeFrom(kernels, FindRunning(kernels))

\* Mutant of analyze_kernels: the empty-list guard is missing.
analyze_kernels_no_empty_guard(kernels) == AnalyzeNonEmpty(kernels)

\* The outcome of analyze_kernels: the result it returns or the error it
\* raises, and the record list as the call leaves it.
analyze_kernels(kernels) ==
    IF kernels = <<>>
    THEN Returned(kernels, AnalysisResult(<<>>, <<>>, <<>>, <<>>, <<>>))
    ELSE AnalyzeNonEmpty(kernels)

\* The package names that must never be removed.
get_protected_packages(running_kernel, latest_kernel) ==
    { LinuxImagePrefix \o running_kernel, LinuxHeadersPrefix \o running_kernel,
      LinuxImagePrefix \o latest_kernel, LinuxHeadersPrefix \o latest_kernel }

\* The base-version projection matcher builds for -common packages.
HeaderBaseVersion(kver) ==
    LET parts == RSplitDash(kver)
    IN  IF Len(parts) = 2
        THEN IF /\ IsAlnum(Replace(parts[2], <<"_">>, <<>>))
                /\ IsLower(parts[2])
             THEN parts[1]
             ELSE kver
        ELSE kver

\* Mutant of IsObsoleteHeader: a regular header is matched by base version,
\* as a -common header is.
IsObsoleteHeader_BaseLeniency(header, kernel_versions) ==
    LET version == Replace(header, LinuxHeadersPrefix, <<>>)
        base_versions == {HeaderBaseVersion(kver) : kver \in kernel_versions}
    IN  IF EndsWith(version, CommonSuffix)
        THEN SubSeq(version, 1, Len(version) - Len(CommonSuffix))
                \notin base_versions
        ELSE HeaderBaseVersion(version) \notin base_versions

\* The test of the header loop: whether a header package is obsolete.
IsObsoleteHeader(header, kernel_versions) ==
    LET version == Replace(header, LinuxHeadersPrefix, <<>>)
        base_versions == {HeaderBaseVersion(kver) : kver \in kernel_versions}
    IN  IF EndsWith(version, CommonSuffix)
        THEN SubSeq(version, 1, Len(version) - Len(CommonSuffix))
                \notin base_versions
        ELSE version \notin kernel_versions

match_headers_to_kernels(headers, kernel_versions) ==
    SelectSeq(headers, LAMBDA header : IsObsoleteHeader(header, kernel_versions))

(***************************************************************************)
(* ansible/lib/kernsweep.py: the embedded analyzer functions.              *)
(* compare_kernel_versions and validate_removal_safety are the same code   *)
(* as in analyzer.py.                                                      *)
(***************************************************************************)
NoKernelsProvidedMsg == <<"No kernels provided for analysis">>

\* The records of the list on one side of the embedded partition, which
\* tests the version alone.
EmbeddedPartition(kernels, protected_versions, side) ==
    SelectSeq(kernels, LAMBDA k : (k.version \in protected_versions) = side)

\* The embedded partition and the gate, for running record r and latest
\* record l.
EmbeddedClassify(kernels, r, l) ==
    Gate(kernels, r, l,
         PackageNames(EmbeddedPartition(kernels,
                        ProtectedVersions(kernels, r, l), FALSE)),
         PackageNames(EmbeddedPartition(kernels,
                        ProtectedVersions(kernels, r, l), TRUE)))

\* The embedded analyze_kernels from the search for the running record on:
\* the record the fold selects is the latest one.
EmbeddedAnalyzeFrom(kernels, r) ==
    IF r = 0
    THEN Raised(kernels, "ValueError", RunningNotFoundMsg)
    ELSE EmbeddedClassify(MarkLatest(kernels, FindLatest(kernels, 2, 1)),
                          r, FindLatest(kernels, 2, 1))

\* analyze_kernels of ansible/lib/kernsweep.py.
embedded_analyze_kernels(kernels) ==
    IF kernels = <<>>
    THEN Raised(kernels, "ValueError", NoKernelsProvidedMsg)
    ELSE EmbeddedAnalyzeFrom(kernels, FindRunning(kernels))

\* match_headers_to_kernels of ansible/lib/kernsweep.py.
embedded_match_headers_to_kernels(headers, kernel_versions) ==
    SelectSeq(headers,
        LAMBDA header :
            Replace(header, LinuxHeadersPrefix, <<>>) \notin kernel_versions)

(***************************************************************************)
(* remover.py                                                              *)
(***************************************************************************)
\* The apt-get command line: program, fixed options, then the packages.
generate_apt_command(packages) ==
    [program |-> "apt-get",
     options |-> <<"-y", "remove", "--autoremove", "--purge">>,
     packages |-> packages]

AllSuccess(packages) ==
    [i \in 1..Len(packages) |-> <<packages[i], "SUCCESS">>]

\* What subprocess.run of apt-get may do: end with status 0, end with
\* another status, raise a SubprocessError, or raise an OSError.
AptEndings == {"exit_zero", "exit_nonzero", "SubprocessError", "OSError"}

\* _execute_apt_removal: the results, or the exception that leaves it.
execute_apt_removal(cmd, packages, apt) ==
    IF apt = "exit_zero"
    THEN [status |-> "returned", results |-> AllSuccess(packages)]
    ELSE IF apt = "OSError"
    THEN [status |-> "raised", exception |-> "OSError"]
    ELSE [status |-> "raised", exception |-> "RuntimeError"]

\* Mutant of remove_packages: privileges are checked before the dry-run
\* shortcut.
remove_packages_sudo_first(packages, dry_run, is_root, apt) ==
    IF packages = <<>>
    THEN [status |-> "returned", results |-> <<>>,
          sudo_checks |-> 0, commands |-> <<>>]
    ELSE IF ~is_root
    THEN [status |-> "raised", exception |-> "PermissionError",
          sudo_checks |-> 1, commands |-> <<>>]
    ELSE IF dry_run
    THEN [status |-> "returned", results |-> AllSuccess(packages),
          sudo_checks |-> 1, commands |-> <<>>]
    ELSE LET cmd == generate_apt_command(packages)
         IN  [sudo_checks |-> 1, commands |-> <<cmd>>]
                @@ execute_apt_removal(cmd, packages, apt)

\* Mutant of remove_packages: the privilege check is missing.
remove_packages_no_sudo_check(packages, dry_run, is_root, apt) ==
    IF packages = <<>>
    THEN [status |-> "returned", results |-> <<>>,
          sudo_checks |-> 0, commands |-> <<>>]
    ELSE IF dry_run
    THEN [status |-> "returned", results |-> AllSuccess(packages),
          sudo_checks |-> 0, commands |-> <<>>]
    ELSE [sudo_checks |-> 0, commands |-> <<generate_apt_command(packages)>>]
            @@ execute_apt_removal(generate_apt_command(packages),
                                   packages, apt)

\* remove_packages for a process that is root or not, where apt-get would
\* end as apt: what it returns or raises, the number of check_sudo calls
\* and the commands it runs.
remove_packages(packages, dry_run, is_root, apt) ==
    IF packages = <<>>
    THEN [status |-> "returned", results |-> <<>>,
          sudo_checks |-> 0, commands |-> <<>>]
    ELSE IF dry_run
    THEN [status |-> "returned", results |-> AllSuccess(packages),
          sudo_checks |-> 0, commands |-> <<>>]
    ELSE IF ~is_root
    THEN [status |-> "raised", exception |-> "PermissionError",
          sudo_checks |-> 1, commands |-> <<>>]
    ELSE LET cmd == generate_apt_command(packages)
         IN  [sudo_checks |-> 1, commands |-> <<cmd>>]
                @@ execute_apt_removal(cmd, packages, apt)

(***************************************************************************)
(* State                                                                   *)
(***************************************************************************)
VARIABLES
    pc,        \* where the call or the command-line run stands
    call,      \* the arguments of the library call under way
    kernels,   \* the KernelInfo objects the analyzer reads and flags
    outcome,   \* what the call returned or raised
    args,      \* the flags of the command line
    is_root,   \* whether the process runs as root (os.geteuid() == 0)
    analysis,  \* the AnalysisResult object the command-line run holds
    effects,   \* what the run has done to the outside so far
    exit_code  \* the exit code of the command-line run

vars ==
    <<pc, call, kernels, outcome, args, is_root, analysis, effects, exit_code>>

cli_vars == <<args, is_root, analysis, effects, exit_code>>

NoCall == [name |-> "none"]
NoArgs == [none |-> TRUE]
NoAnalysis == AnalysisResult(<<>>, <<>>, <<>>, <<>>, <<>>)
NoExit == "none"

\* Nothing done yet: no check_sudo call, no analysis printed, no prompt
\* shown, no answer read, no command run and none ended, no look at the
\* reboot-required marker.
NoEffects ==
    [sudo_checks |-> 0, reported |-> FALSE, prompts |-> 0, answers |-> <<>>,
     commands |-> <<>>, endings |-> <<>>, marker_reads |-> <<>>]

\* The command-line state of a library call.
CliIdle ==
    /\ args = NoArgs
    /\ is_root = FALSE
    /\ analysis = NoAnalysis
    /\ effects = NoEffects
    /\ exit_code = NoExit
NoOutcome == [status |-> "none"]

(***************************************************************************)
(* Inputs                                                                  *)
(***************************************************************************)
\* Longest list of records drawn in every order.
MaxPermuted == 3

\* Every record the detector builds from the listing.
DetectedKernels == get_installed_kernels(KernelListing)

\* The kernel lists of systems that keep a contiguous range of the listing.
ListingWindows ==
    {get_installed_kernels(SubSeq(KernelListing, i, j)) :
        i \in 1..Len(KernelListing), j \in 0..Len(KernelListing)}

\* Records of mixed conventions: two flavors of one build, Debian builds 9
\* and 10, a version outside the numeric grammar, two packages of one
\* version.
MixedKernels ==
    {k \in {DetectedKernels[i] : i \in 1..Len(DetectedKernels)} :
        k.version \in {V_5_15_0_75_generic, V_5_15_0_82_generic,
                       V_5_15_0_82_lowlatency, V_5_15_0_91_generic,
                       V_6_1_0_9_amd64, V_6_1_0_10_amd64,
                       V_6_12_47_rpt_rpi_v8, V_6_8_12_4_pve}}

\* The lists of at most n distinct elements of S, in every order.
ListsUpTo(S, n) ==
    UNION {{f \in [1..k -> S] : \A a, b \in 1..k : a # b => f[a] # f[b]} :
            k \in 0..n}

\* The caller flags at most one record as running.
FlagRunning(list, r) ==
    [i \in 1..Len(list) |-> [list[i] EXCEPT !.is_running = (i = r)]]

KernelLists ==
    {FlagRunning(list, r) :
        list \in ListingWindows \cup ListsUpTo(MixedKernels, MaxPermuted),
        r \in 0..Len(KernelListing)}

(***************************************************************************)
(* analyze_kernels called on a list of records                             *)
(***************************************************************************)
AnalyzeInit ==
    /\ pc = "analyze"
    /\ kernels \in KernelLists
    /\ call = [name |-> "analyze_kernels", kernels |-> kernels]
    /\ outcome = NoOutcome
    /\ CliIdle

AnalyzeCall ==
    /\ pc = "analyze"
    /\ \E out \in {analyze_kernels(kernels)} :
          /\ kernels' = out.kernels
          /\ outcome' = out
    /\ pc' = "analyzed"
    /\ UNCHANGED <<call, cli_vars>>

AnalyzeNext == AnalyzeCall

AnalyzeSpec == AnalyzeInit /\ [][AnalyzeNext]_vars

(***************************************************************************)
(* validate_removal_safety called on a proposal                            *)
(***************************************************************************)
\* Longest all_kernels list handed to the safety gate.
MaxAllKernels == 8

\* Packages a proposal may name: seven kernel images, a Proxmox kernel and
\* two header packages.
ProposalPool ==
    << LinuxImagePrefix \o V_5_15_0_60_generic,
       LinuxImagePrefix \o V_5_15_0_69_generic,
       LinuxImagePrefix \o V_5_15_0_75_generic,
       LinuxImagePrefix \o V_5_15_0_82_generic,
       LinuxImagePrefix \o V_5_15_0_82_lowlatency,
       LinuxImagePrefix \o V_5_15_0_91_generic,
       LinuxImagePrefix \o V_6_1_0_10_amd64,
       ProxmoxKernelPrefix \o V_6_8_12_4_pve \o SignedSuffix,
       LinuxHeadersPrefix \o V_5_15_0_75_generic,
       ProxmoxHeadersPrefix \o V_6_8_12_4_pve >>

\* The elements of pool at the indices in S, in pool order.
Pick(pool, S) ==
    LET F[i \in 0..Len(pool)] ==
            IF i = 0 THEN <<>>
            ELSE IF i \in S THEN Append(F[i - 1], pool[i])
            ELSE F[i - 1]
    IN  F[Len(pool)]

Proposals == {Pick(ProposalPool, S) : S \in SUBSET (1..Len(ProposalPool))}

\* Versions given to the gate as running and as latest.
GateVersions == {V_5_15_0_82_generic, V_5_15_0_91_generic, V_6_8_12_4_pve}

ValidateInit ==
    /\ pc = "validate"
    /\ \E n \in 0..MaxAllKernels :
          \/ kernels = SubSeq(DetectedKernels, 1, n)
          \/ kernels = SubSeq(DetectedKernels,
                              Len(DetectedKernels) - n + 1,
                              Len(DetectedKernels))
    /\ \E p \in Proposals, running \in GateVersions, latest \in GateVersions :
          call = [name |-> "validate_removal_safety",
                  packages_to_remove |-> p,
                  running_kernel |-> running,
                  latest_kernel |-> latest]
    /\ outcome = NoOutcome
    /\ CliIdle

ValidateCall ==
    /\ pc = "validate"
    /\ LET verdict == validate_removal_safety(call.packages_to_remove,
                            call.running_kernel, call.latest_kernel, kernels)
       IN  outcome' = [status |-> "returned", is_safe |-> verdict[1],
                       error_message |-> verdict[2]]
    /\ pc' = "validated"
    /\ UNCHANGED <<call, kernels, cli_vars>>

ValidateNext == ValidateCall

ValidateSpec == ValidateInit /\ [][ValidateNext]_vars

(***************************************************************************)
(* match_headers_to_kernels called on header names and kernel versions     *)
(***************************************************************************)
\* Longest header list handed to the matcher.
MaxMatchHeaders == 2

\* Largest set of kernel versions handed to the matcher.
MaxKernelVersions == 2

\* A version whose flavor holds an underscore.
V_6_1_0_10_rt_amd64 ==
    Debian61 \o <<"1", "0", "-", "r", "t", "_", "a", "m", "d", "6", "4">>

\* Header package names: per-flavor headers, shared -common headers, a
\* header without flavor and a Proxmox header.
HeaderPool ==
    { LinuxHeadersPrefix \o V_5_15_0_75_generic,
      LinuxHeadersPrefix \o V_5_15_0_82_generic,
      LinuxHeadersPrefix \o V_5_15_0_82_lowlatency,
      LinuxHeadersPrefix \o Ubuntu515 \o <<"8", "2">>,
      LinuxHeadersPrefix \o V_6_1_0_10_amd64,
      LinuxHeadersPrefix \o Debian61 \o <<"1", "0">> \o CommonSuffix,
      LinuxHeadersPrefix \o Debian61 \o <<"9">> \o CommonSuffix,
      LinuxHeadersPrefix \o SubSeq(Rpi61247, 1, Len(Rpi61247) - 1)
            \o CommonSuffix,
      ProxmoxHeadersPrefix \o V_6_8_12_4_pve }

\* Versions the matcher may be told to keep.
KernelVersionPool ==
    { V_5_15_0_82_generic, V_5_15_0_91_generic, V_6_1_0_10_amd64,
      V_6_1_0_10_rt_amd64, V_6_12_47_rpt_rpi_2712, V_6_12_47_rpt_rpi_v8,
      V_6_8_12_4_pve }

MatchInit ==
    /\ pc = "match"
    /\ \E headers \in ListsUpTo(HeaderPool, MaxMatchHeaders),
          kernel_versions \in
             {S \in SUBSET KernelVersionPool :
                 Cardinality(S) <= MaxKernelVersions} :
          call = [name |-> "match_headers_to_kernels", headers |-> headers,
                  kernel_versions |-> kernel_versions]
    /\ kernels = <<>>
    /\ outcome = NoOutcome
    /\ CliIdle

MatchCall ==
    /\ pc = "match"
    /\ outcome' = [status |-> "returned",
                   obsolete_headers |->
                      match_headers_to_kernels(call.headers,
                                               call.kernel_versions)]
    /\ pc' = "matched"
    /\ UNCHANGED <<call, kernels, cli_vars>>

MatchNext == MatchCall

MatchSpec == MatchInit /\ [][MatchNext]_vars

(***************************************************************************)
(* compare_kernel_versions called on two version strings                   *)
(***************************************************************************)
\* Version strings inside and outside the major.minor.patch-build grammar:
\* one build in two flavors, builds 9 and 10, patches 4 and 12, a build
\* written with a leading zero, a three-digit major, a version without
\* flavor, and strings the pattern does not match.
CompareVersions ==
    { V_5_15_0_82_generic, V_5_15_0_82_lowlatency, V_5_15_0_91_generic,
      Ubuntu515 \o <<"8", "2">>,
      Ubuntu515 \o <<"0", "8", "2">> \o Generic,
      V_6_1_0_9_amd64, V_6_1_0_10_amd64,
      V_6_8_4_2_pve, V_6_8_12_4_pve,
      <<"1", "0", "0", ".", "0", ".", "0", "-", "1">> \o Generic,
      V_6_12_47_rpt_rpi_2712, V_6_12_47_rpt_rpi_v8,
      <<"6", ".", "8">>,
      <<"5", ".", "1", "5", ".", "0">> \o Generic }

CompareInit ==
    /\ pc = "compare"
    /\ \E version1 \in CompareVersions, version2 \in CompareVersions :
          call = [name |-> "compare_kernel_versions",
                  version1 |-> version1, version2 |-> version2]
    /\ kernels = <<>>
    /\ outcome = NoOutcome
    /\ CliIdle

CompareCall ==
    /\ pc = "compare"
    /\ outcome' = [status |-> "returned",
                   value |-> compare_kernel_versions(call.version1,
                                                     call.version2)]
    /\ pc' = "compared"
    /\ UNCHANGED <<call, kernels, cli_vars>>

CompareNext == CompareCall

CompareSpec == CompareInit /\ [][CompareNext]_vars

(***************************************************************************)
(* extract_base_version called on a version string                         *)
(***************************************************************************)
\* What stands before the last dash: release numbers with and without a
\* dash of their own, a platform prefix, a single letter, nothing.
BasePrefixes ==
    { <<"5", ".", "1", "5", ".", "0", "-", "8", "2">>,
      <<"6", ".", "1", ".", "0">>,
      SubSeq(Rpi61247, 1, Len(Rpi61247) - 1),
      <<"6", ".", "8">>,
      <<"a">>,
      <<>> }

\* What stands after the last dash: flavors, flavors with underscores,
\* underscores alone, nothing, dotted numeric tails, and tails with a
\* character that is neither alphanumeric nor an underscore.
BaseSuffixes ==
    { <<"g", "e", "n", "e", "r", "i", "c">>,
      <<"2", "7", "1", "2">>,
      <<"v", "8">>,
      <<"r", "t", "_", "a", "m", "d", "6", "4">>,
      <<"_", "x">>,
      <<"8", "_">>,
      <<"_">>,
      <<"_", "_">>,
      <<>>,
      <<"5", ".", "1", "5">>,
      <<"0", ".">>,
      <<"8", "2", "+", "x">>,
      <<"r", "c", ".", "1">>,
      <<"Y", "E", "S">> }

\* Version strings: every prefix joined to every suffix by a dash, and the
\* strings without a dash among them.
BaseVersionInputs ==
    {p \o <<"-">> \o s : p \in BasePrefixes, s \in BaseSuffixes}
        \cup {p \in BasePrefixes \cup BaseSuffixes :
                \A i \in 1..Len(p) : p[i] # "-"}

ExtractInit ==
    /\ pc = "extract"
    /\ \E version \in BaseVersionInputs :
          call = [name |-> "extract_base_version", version |-> version]
    /\ kernels = <<>>
    /\ outcome = NoOutcome
    /\ CliIdle

ExtractCall ==
    /\ pc = "extract"
    /\ \E result \in {extract_base_version(call.version)} :
          outcome' = [status |-> "returned", base |-> result[1],
                      flavor |-> result[2]]
    /\ pc' = "extracted"
    /\ UNCHANGED <<call, kernels, cli_vars>>

ExtractNext == ExtractCall

ExtractSpec == ExtractInit /\ [][ExtractNext]_vars

(***************************************************************************)
(* The embedded analyze_kernels and match_headers_to_kernels of            *)
(* ansible/lib/kernsweep.py, called on the inputs of the package functions *)
(***************************************************************************)
EmbeddedInit ==
    /\ outcome = NoOutcome
    /\ CliIdle
    /\ \/ /\ pc = "embedded_analyze"
          /\ kernels \in KernelLists
          /\ call = [name |-> "analyze_kernels", kernels |-> kernels]
       \/ /\ pc = "embedded_match"
          /\ kernels = <<>>
          /\ \E headers \in ListsUpTo(HeaderPool, MaxMatchHeaders),
                kernel_versions \in
                   {S \in SUBSET KernelVersionPool :
                       Cardinality(S) <= MaxKernelVersions} :
                call = [name |-> "match_headers_to_kernels",
                        headers |-> headers,
                        kernel_versions |-> kernel_versions]

EmbeddedAnalyzeCall ==
    /\ pc = "embedded_analyze"
    /\ \E out \in {embedded_analyze_kernels(kernels)} :
          /\ kernels' = out.kernels
          /\ outcome' = out
    /\ pc' = "embedded_analyzed"
    /\ UNCHANGED <<call, cli_vars>>

EmbeddedMatchCall ==
    /\ pc = "embedded_match"
    /\ outcome' = [status |-> "returned",
                   obsolete_headers |->
                      embedded_match_headers_to_kernels(call.headers,
                                                        call.kernel_versions)]
    /\ pc' = "embedded_matched"
    /\ UNCHANGED <<call, kernels, cli_vars>>

EmbeddedNext ==
    \/ EmbeddedAnalyzeCall
    \/ EmbeddedMatchCall

EmbeddedSpec == EmbeddedInit /\ [][EmbeddedNext]_vars

(***************************************************************************)
(* cli.py: one run of main; remover.py: remove_packages called directly    *)
(***************************************************************************)
\* Most kernel lines and most header lines dpkg lists in one run.
MaxInstalled == 4
MaxHeaderLines == 2

\* Header packages a system may list, in dpkg's order.
HeaderListing ==
    << DpkgLine("ii", LinuxHeadersPrefix \o V_5_15_0_75_generic),
       DpkgLine("ii", LinuxHeadersPrefix \o V_5_15_0_91_generic),
       DpkgLine("ii", LinuxHeadersPrefix \o V_6_1_0_10_amd64),
       DpkgLine("ii", LinuxHeadersPrefix \o Debian61 \o <<"1", "0">>
                        \o CommonSuffix),
       DpkgLine("ii", LinuxHeadersPrefix \o SubSeq(Generic, 2, Len(Generic))),
       DpkgLine("ii", ProxmoxHeadersPrefix \o V_6_8_12_4_pve) >>

\* The windows of at most n lines of a listing.
Windows(listing, n) ==
    {SubSeq(listing, w[1], w[2]) :
        w \in {v \in (1..Len(listing)) \X (0..Len(listing)) :
                    v[2] - v[1] + 1 <= n}}

\* What `uname -r` may print on a system with these kernel lines: the
\* version of an installed kernel, or that of a kernel whose package is gone.
UnameOutputs(lines) ==
    {k.version : k \in {get_installed_kernels(lines)[i] :
                            i \in 1..Len(get_installed_kernels(lines))}}
        \cup {V_5_15_0_52_generic}

\* What the user may type at the prompt.
Responses ==
    { <<"y">>, <<"y", "e", "s">>, <<"Y">>, <<" ", "Y", "E", "S", " ">>,
      <<"n">>, <<"y", "e", "s", "s">>, <<>> }

\* Mutant of MarkRunning: when no record has the running version, the
\* first record is flagged.
MarkRunning_FirstWhenAbsent(installed_kernels, running_kernel_version) ==
    LET same == {i \in 1..Len(installed_kernels) :
                    installed_kernels[i].version = running_kernel_version}
    IN  IF installed_kernels = <<>>
        THEN installed_kernels
        ELSE [installed_kernels EXCEPT
                ![IF same = {} THEN 1
                  ELSE CHOOSE i \in same : \A j \in same : i <= j]
                    .is_running = TRUE]

\* The loop of _detect_and_analyze that flags the first record whose
\* version is the running version.
MarkRunning(installed_kernels, running_kernel_version) ==
    LET same == {i \in 1..Len(installed_kernels) :
                    installed_kernels[i].version = running_kernel_version}
    IN  IF same = {}
        THEN installed_kernels
        ELSE LET first == CHOOSE i \in same : \A j \in same : i <= j
             IN  [installed_kernels EXCEPT ![first].is_running = TRUE]

Flags == [dry_run : BOOLEAN, remove : BOOLEAN, verbose : BOOLEAN,
          quiet : BOOLEAN, yes : BOOLEAN, version : BOOLEAN]

\* The package lists remove_packages is called with directly.
RemovalLists == {SubSeq(ProposalPool, 1, n) : n \in 0..Len(ProposalPool)}

Init ==
    /\ kernels = <<>>
    /\ outcome = NoOutcome
    /\ analysis = NoAnalysis
    /\ effects = NoEffects
    /\ exit_code = NoExit
    /\ is_root \in BOOLEAN
    /\ \/ /\ pc = "main"
          /\ args \in Flags
          /\ call = [name |-> "main"]
       \/ /\ pc = "remove_packages"
          /\ args = NoArgs
          /\ \E packages \in RemovalLists, dry_run \in BOOLEAN :
                call = [name |-> "remove_packages", packages |-> packages,
                        dry_run |-> dry_run]

Return(code) == pc' = "returned" /\ exit_code' = code

SystemExit(code) == pc' = "system_exit" /\ exit_code' = code

\* main up to the workflow: help without arguments, --version, and the two
\* argument combinations parser.error rejects.
Main ==
    /\ pc = "main"
    /\ IF \A f \in DOMAIN args : ~args[f]
       THEN Return(0)
       ELSE IF args.version
       THEN SystemExit(0)
       ELSE IF args.quiet /\ args.verbose
       THEN SystemExit(2)
       ELSE IF args.yes /\ ~args.remove
       THEN SystemExit(2)
       ELSE pc' = "detect" /\ UNCHANGED exit_code
    /\ UNCHANGED <<call, kernels, outcome, args, is_root, analysis, effects>>

\* _detect_and_analyze, steps 1 and 2: uname, dpkg, and the running flag.
\* A failing command raises RuntimeError, which main turns into exit code 1.
DetectKernels ==
    /\ pc = "detect"
    /\ \/ /\ Return(1)
          /\ UNCHANGED <<call, kernels>>
       \/ \E lines \in Windows(KernelListing, MaxInstalled) :
          \E running_kernel_version \in UnameOutputs(lines) :
             /\ call' = [name |-> "main",
                         running_kernel_version |-> running_kernel_version]
             /\ kernels' = MarkRunning(get_installed_kernels(lines),
                                       running_kernel_version)
             /\ pc' = "analyze"
             /\ UNCHANGED exit_code
    /\ UNCHANGED <<outcome, args, is_root, analysis, effects>>

\* _detect_and_analyze, step 3: a ValueError of analyze_kernels ends main
\* with exit code 1.
Analyze ==
    /\ pc = "analyze"
    /\ \E out \in {analyze_kernels(kernels)} :
          /\ kernels' = out.kernels
          /\ outcome' = out
          /\ IF out.status = "raised"
             THEN Return(1) /\ UNCHANGED analysis
             ELSE /\ analysis' = out.result
                  /\ pc' = "headers"
                  /\ UNCHANGED exit_code
    /\ UNCHANGED <<call, args, is_root, effects>>

\* _detect_and_analyze, step 4, then main: the headers are matched against
\* {running, latest}, the analysis is printed, and main either hands the
\* obsolete packages to _handle_removal or returns 1.
MatchHeaders ==
    /\ pc = "headers"
    /\ \/ /\ Return(1)
          /\ UNCHANGED <<analysis, effects>>
       \/ \E lines \in Windows(HeaderListing, MaxHeaderLines) :
          \E obsolete_headers \in
                {match_headers_to_kernels(get_installed_headers(lines),
                    {analysis.running_kernel, analysis.latest_kernel})} :
                 /\ analysis' =
                        [analysis EXCEPT !.obsolete_headers = obsolete_headers]
                 /\ effects' = [effects EXCEPT !.reported = TRUE]
                 /\ IF analysis.obsolete_kernels # <<>>
                        \/ obsolete_headers # <<>>
                    THEN pc' = "handle_removal" /\ UNCHANGED exit_code
                    ELSE Return(1)
    /\ UNCHANGED <<call, kernels, outcome, args, is_root>>

\* _handle_removal up to the prompt.
HandleRemoval ==
    /\ pc = "handle_removal"
    /\ IF args.remove /\ ~args.dry_run
       THEN effects' = [effects EXCEPT !.sudo_checks = @ + 1]
       ELSE UNCHANGED effects
    /\ IF args.remove /\ ~args.dry_run /\ ~is_root
       THEN Return(-1)
       ELSE IF args.dry_run
       THEN Return(0)
       ELSE IF ~args.remove
       THEN Return(0)
       ELSE /\ pc' = IF ~args.yes /\ ~args.quiet THEN "prompt" ELSE "remove"
            /\ UNCHANGED exit_code
    /\ UNCHANGED <<call, kernels, outcome, args, is_root, analysis>>

\* input("Continue? [y/N]: "): the answer, stripped and lowered, continues
\* the removal only when it is y or yes; end of input raises EOFError,
\* which main turns into exit code 1.
Prompt ==
    /\ pc = "prompt"
    /\ \/ /\ effects' = [effects EXCEPT !.prompts = @ + 1]
          /\ Return(1)
       \/ \E answer \in Responses :
             /\ effects' = [effects EXCEPT !.prompts = @ + 1,
                                           !.answers = Append(@, answer)]
             /\ IF Lower(Strip(answer)) \notin {<<"y">>, <<"y", "e", "s">>}
                THEN Return(0)
                ELSE pc' = "remove" /\ UNCHANGED exit_code
    /\ UNCHANGED <<call, kernels, outcome, args, is_root, analysis>>

\* How the commands of a removal ended: apt for the one command, if run.
EndingsOf(removal, apt) ==
    IF removal.commands = <<>> THEN <<>> ELSE <<apt>>

\* Mutant of RemovalExitCode: a successful removal returns 0 whether or
\* not a reboot is needed.
RemovalExitCode_NoRebootCode(removal, reboot_needed) ==
    IF removal.status = "raised"
    THEN IF removal.exception = "PermissionError" THEN -1 ELSE -2
    ELSE 0

\* The exit code of _handle_removal once remove_packages has ended.
RemovalExitCode(removal, reboot_needed) ==
    IF removal.status = "raised"
    THEN IF removal.exception = "PermissionError" THEN -1 ELSE -2
    ELSE LET failed_count ==
                Cardinality({i \in 1..Len(removal.results) :
                                removal.results[i][2] # "SUCCESS"})
         IN  IF failed_count > 0 THEN -2
             ELSE IF reboot_needed THEN 2
             ELSE 0

\* _handle_removal from "Removing packages..." on: remove_packages, the
\* reboot check (marker file or running # latest) and the exit code.
Remove ==
    /\ pc = "remove"
    /\ \E apt \in AptEndings, reboot_required_file \in BOOLEAN :
          \E removal \in
                {remove_packages(analysis.obsolete_kernels
                                    \o analysis.obsolete_headers,
                                 FALSE, is_root, apt)} :
          LET reboot_needed ==
                 \/ reboot_required_file
                 \/ analysis.running_kernel # analysis.latest_kernel
          IN  /\ effects' =
                    [effects EXCEPT
                        !.sudo_checks = @ + removal.sudo_checks,
                        !.commands = @ \o removal.commands,
                        !.endings = @ \o EndingsOf(removal, apt),
                        !.marker_reads =
                            IF removal.status = "returned"
                            THEN Append(@, reboot_required_file)
                            ELSE @]
              /\ Return(RemovalExitCode(removal, reboot_needed))
    /\ UNCHANGED <<call, kernels, outcome, args, is_root, analysis>>

\* remove_packages called directly.
RemovePackagesCall ==
    /\ pc = "remove_packages"
    /\ \E apt \in AptEndings :
          \E removal \in {remove_packages(call.packages, call.dry_run,
                                          is_root, apt)} :
              /\ outcome' = removal
              /\ effects' =
                    [effects EXCEPT
                        !.sudo_checks = @ + removal.sudo_checks,
                        !.commands = @ \o removal.commands,
                        !.endings = @ \o EndingsOf(removal, apt)]
    /\ pc' = "removed"
    /\ UNCHANGED <<call, kernels, args, is_root, analysis, exit_code>>

Next ==
    \/ Main
    \/ DetectKernels
    \/ Analyze
    \/ MatchHeaders
    \/ HandleRemoval
    \/ Prompt
    \/ Remove
    \/ RemovePackagesCall

Spec == Init /\ [][Next]_vars

(***************************************************************************)
(* Properties of the safety gate (ValidateSpec)                            *)
(***************************************************************************)
\* The gate's view of the call under way.
RunningImageProposed ==
    InList(LinuxImagePrefix \o call.running_kernel, call.packages_to_remove)

LatestImageProposed ==
    InList(LinuxImagePrefix \o call.latest_kernel, call.packages_to_remove)

\* Number of proposed packages named by the image convention.
ProposedImageCount ==
    Cardinality({i \in 1..Len(call.packages_to_remove) :
                    StartsWith(call.packages_to_remove[i], LinuxImagePrefix)})

RejectedWith(message) ==
    ~outcome.is_safe /\ outcome.error_message = message

\* C2: whenever linux-image-<running> is among the proposed removals,
\* validate returns not-ok with the running-kernel reason, naming the
\* running version, whatever other rules the proposal also violates.
C2_RunningCheckFirst ==
    (pc = "validated" /\ RunningImageProposed) =>
        RejectedWith(<<"Safety check failed: Running kernel ",
                       call.running_kernel, " is marked for removal">>)

\* A proposal that names the running image, the latest image of another
\* version, and every installed kernel.
C2_Witness ==
    /\ pc = "validated"
    /\ RunningImageProposed
    /\ LatestImageProposed
    /\ call.latest_kernel # call.running_kernel
    /\ Len(kernels) - ProposedImageCount < 1
    /\ ~outcome.is_safe

\* C3: whenever linux-image-<latest> is proposed and linux-image-<running>
\* is not, validate returns not-ok with the latest-kernel reason, naming the
\* latest version, whatever the remaining count and the bulk size are.
C3_LatestCheckSecond ==
    (pc = "validated" /\ LatestImageProposed /\ ~RunningImageProposed) =>
        RejectedWith(<<"Safety check failed: Latest kernel ",
                       call.latest_kernel, " is marked for removal">>)

\* The latest image proposed without the running one, in a bulk proposal
\* that leaves no kernel.
C3_Witness ==
    /\ pc = "validated"
    /\ LatestImageProposed
    /\ ~RunningImageProposed
    /\ ProposedImageCount > 5
    /\ Len(kernels) - ProposedImageCount < 1
    /\ ~outcome.is_safe

\* C4: a proposal with neither the running nor the latest image is rejected
\* with the no-kernels-remain reason exactly when len(all_kernels) minus the
\* number of proposed kernel images is below 1; leaving exactly one passes.
C4_NoKernelsRemainExactly ==
    (pc = "validated" /\ ~RunningImageProposed /\ ~LatestImageProposed) =>
        (RejectedWith(<<"Safety check failed: No kernels would remain after removal">>)
            <=> Len(kernels) - ProposedImageCount < 1)

\* A proposal with header packages that leaves exactly one kernel and passes.
C4_Witness ==
    /\ pc = "validated"
    /\ ~RunningImageProposed
    /\ ~LatestImageProposed
    /\ ProposedImageCount >= 1
    /\ Len(call.packages_to_remove) > ProposedImageCount
    /\ Len(kernels) - ProposedImageCount = 1
    /\ outcome.is_safe

ExcessiveReason(count) ==
    <<"Safety check warning: Attempting to remove ", IntToStr(count),
      " kernels at once. This seems excessive.">>

\* C5 as stated: a proposal of more than 5 kernel images always fails with
\* the message that carries the exact count and the word "excessive".
C5_AlwaysExcessive ==
    (pc = "validated" /\ ProposedImageCount > 5) =>
        RejectedWith(ExcessiveReason(ProposedImageCount))

\* C5 amended: a proposal of more than 5 kernel images always fails; its
\* message carries the exact count and the word "excessive" when no earlier
\* check fails, that is when the proposal names neither the running nor the
\* latest image and leaves at least one installed kernel.
C5_ExcessiveUnlessEarlierCheck ==
    (pc = "validated" /\ ProposedImageCount > 5) =>
        /\ ~outcome.is_safe
        /\ (/\ ~RunningImageProposed
            /\ ~LatestImageProposed
            /\ Len(kernels) - ProposedImageCount >= 1)
                => outcome.error_message = ExcessiveReason(ProposedImageCount)

\* Six kernel images and a header package proposed with eight kernels
\* installed: rejected as excessive, with the count 6.
C5_Witness ==
    /\ pc = "validated"
    /\ ProposedImageCount = 6
    /\ Len(call.packages_to_remove) > 6
    /\ ~RunningImageProposed
    /\ ~LatestImageProposed
    /\ Len(kernels) = 8
    /\ RejectedWith(ExcessiveReason(6))

\* The proposal without its linux-headers-* entries.
WithoutHeaders(packages) ==
    SelectSeq(packages, LAMBDA pkg : ~StartsWith(pkg, LinuxHeadersPrefix))

\* C16: the verdict on a proposal is the verdict on the same proposal
\* without its linux-headers-* entries.
C16_HeadersDoNotCount ==
    pc = "validated" =>
        <<outcome.is_safe, outcome.error_message>> =
            validate_removal_safety(WithoutHeaders(call.packages_to_remove),
                                    call.running_kernel, call.latest_kernel,
                                    kernels)

\* Five kernel images and a linux-headers package proposed with six kernels
\* installed: one more counted entry would trip both counting checks.
C16_Witness ==
    /\ pc = "validated"
    /\ WithoutHeaders(call.packages_to_remove) # call.packages_to_remove
    /\ ProposedImageCount = 5
    /\ Len(kernels) = 6
    /\ outcome.is_safe

\* The proposal names the package of a record of all_kernels that has the
\* running or the latest version.
ProposesRunningOrLatestRecord ==
    \E i \in 1..Len(kernels) :
        /\ kernels[i].version \in {call.running_kernel, call.latest_kernel}
        /\ InList(kernels[i].package_name, call.packages_to_remove)

\* C23: a proposal that names the package of a record of all_kernels whose
\* version is the running or the latest version is rejected, whatever the
\* naming of the package.
C23_RunningOrLatestRecordRejected ==
    (pc = "validated" /\ ProposesRunningOrLatestRecord) => ~outcome.is_safe

(***************************************************************************)
(* Properties of analyze_kernels (AnalyzeSpec)                             *)
(***************************************************************************)
\* C1: in every result of a non-empty list with a running record, neither
\* the package of the running record nor the package of the record marked
\* latest is in obsolete_kernels.
C1_RunningLatestNotObsolete ==
    (pc = "analyzed" /\ outcome.status = "returned" /\ call.kernels # <<>>) =>
        \A i \in 1..Len(kernels) :
            (kernels[i].is_running \/ kernels[i].is_latest) =>
                ~InList(kernels[i].package_name,
                        outcome.result.obsolete_kernels)

\* A result with the latest mark on another record than the running one
\* and at least one obsolete package.
C1_Witness ==
    /\ pc = "analyzed"
    /\ outcome.status = "returned"
    /\ \E i, j \in 1..Len(kernels) :
          i # j /\ kernels[i].is_running /\ kernels[j].is_latest
    /\ outcome.result.obsolete_kernels # <<>>

\* Number of records the call classified obsolete: those that share neither
\* version nor base version with the running record or the record marked
\* latest.
ObsoleteRecordCount ==
    Cardinality({i \in 1..Len(kernels) :
        \A j \in 1..Len(kernels) :
            (kernels[j].is_running \/ kernels[j].is_latest) =>
                /\ kernels[i].version # kernels[j].version
                /\ extract_base_version(kernels[i].version)[1]
                     # extract_base_version(kernels[j].version)[1]})

\* C6 as stated: analyze never returns more than 5 obsolete kernel
\* packages; when more than 5 records are classified obsolete it raises the
\* gate's reason with the exact count and the word "excessive".
C6_BulkNeverReturned ==
    (pc = "analyzed" /\ call.kernels # <<>> /\ FindRunning(call.kernels) # 0) =>
        /\ outcome.status = "returned" =>
                Len(outcome.result.obsolete_kernels) <= 5
        /\ ObsoleteRecordCount > 5 =>
                /\ outcome.status = "raised"
                /\ outcome.message = ExcessiveReason(ObsoleteRecordCount)

\* C7: analyze of a non-empty list without a running record raises "Running
\* kernel not found ..." and returns no result, whatever the versions are.
C7_RunningKernelNotFound ==
    (/\ pc = "analyzed"
     /\ call.kernels # <<>>
     /\ \A i \in 1..Len(call.kernels) : ~call.kernels[i].is_running) =>
        /\ outcome.status = "raised"
        /\ outcome.exception = "ValueError"
        /\ outcome.message =
              <<"Running kernel not found in installed kernels list">>

\* Three records of different naming and version grammar, none running.
C7_Witness ==
    /\ pc = "analyzed"
    /\ Len(call.kernels) = 3
    /\ \A i \in 1..3 : ~call.kernels[i].is_running
    /\ \E i, j \in 1..3 :
          /\ VersionKey(call.kernels[i].version) = <<>>
          /\ StartsWith(call.kernels[j].package_name, ProxmoxKernelPrefix)
    /\ outcome.status = "raised"

\* C8: analyze of the empty list is no error: the result has empty running
\* and latest versions and empty obsolete, header and protected lists.
C8_EmptyListEmptyResult ==
    (pc = "analyzed" /\ call.kernels = <<>>) =>
        /\ outcome.status = "returned"
        /\ outcome.result.running_kernel = <<>>
        /\ outcome.result.latest_kernel = <<>>
        /\ outcome.result.obsolete_kernels = <<>>
        /\ outcome.result.obsolete_headers = <<>>
        /\ outcome.result.protected_kernels = <<>>

\* The empty list analyzed.
C8_Witness ==
    pc = "analyzed" /\ call.kernels = <<>> /\ outcome.status = "returned"

\* The base versions of the running version and of the record the fold
\* selects in the list given to the call.
ResultBases ==
    { extract_base_version(outcome.result.running_kernel)[1],
      extract_base_version(
          call.kernels[FindLatest(call.kernels, 2, 1)].version)[1] }

\* C19: in a returned result, a record's package is in protected_kernels
\* exactly when its version is the running or the resolved latest version
\* or its base version is the base of the running version or of the
\* fold-selected latest version; the package of every other record is in
\* obsolete_kernels.
C19_PartitionByVersionAndBase ==
    (pc = "analyzed" /\ outcome.status = "returned" /\ call.kernels # <<>>) =>
        \A i \in 1..Len(kernels) :
            /\ InList(kernels[i].package_name,
                      outcome.result.protected_kernels)
                 <=> \/ kernels[i].version \in
                            {outcome.result.running_kernel,
                             outcome.result.latest_kernel}
                     \/ extract_base_version(kernels[i].version)[1]
                            \in ResultBases
            /\ InList(kernels[i].package_name,
                      outcome.result.obsolete_kernels)
                 <=> ~InList(kernels[i].package_name,
                             outcome.result.protected_kernels)

\* A result that protects a record of another version than the running and
\* the latest one, by its base version, and lists an obsolete package.
C19_Witness ==
    /\ pc = "analyzed"
    /\ outcome.status = "returned"
    /\ \E i \in 1..Len(kernels) :
          /\ kernels[i].version \notin {outcome.result.running_kernel,
                                        outcome.result.latest_kernel}
          /\ InList(kernels[i].package_name,
                    outcome.result.protected_kernels)
    /\ outcome.result.obsolete_kernels # <<>>

\* The orders of the positions 1..n.
Orders(n) ==
    {p \in [1..n -> 1..n] : \A a, b \in 1..n : a # b => p[a] # p[b]}

\* The list in another order.
Reordered(list, p) ==
    [i \in 1..Len(list) |-> list[p[i]]]

\* The packages of the records marked latest.
MarkedLatest(list) ==
    {list[i].package_name : i \in {j \in 1..Len(list) : list[j].is_latest}}

\* The result of the same records in another order agrees on the latest.
SameLatest(other) ==
    other.status = "returned" =>
        /\ other.result.latest_kernel = outcome.result.latest_kernel
        /\ MarkedLatest(other.kernels) = MarkedLatest(kernels)

\* C20: the record marked latest and latest_kernel are the same for every
\* order of the same records.
C20_LatestIndependentOfOrder ==
    (/\ pc = "analyzed"
     /\ outcome.status = "returned"
     /\ Len(call.kernels) <= MaxPermuted) =>
        \A p \in Orders(Len(call.kernels)) :
            SameLatest(analyze_kernels(Reordered(call.kernels, p)))

\* The positions of the records marked latest.
LatestMarks(list) == {i \in 1..Len(list) : list[i].is_latest}

\* C21: after a returned analysis of a non-empty list whose records all
\* entered unmarked, exactly one record is marked latest and its version is
\* latest_kernel.
C21_ExactlyOneLatest ==
    (/\ pc = "analyzed"
     /\ outcome.status = "returned"
     /\ call.kernels # <<>>
     /\ LatestMarks(call.kernels) = {}) =>
        /\ Cardinality(LatestMarks(kernels)) = 1
        /\ \A i \in LatestMarks(kernels) :
              kernels[i].version = outcome.result.latest_kernel

\* A returned analysis of a list in which two packages have the latest
\* version.
C21_Witness ==
    /\ pc = "analyzed"
    /\ outcome.status = "returned"
    /\ LatestMarks(call.kernels) = {}
    /\ Cardinality({i \in 1..Len(kernels) :
            kernels[i].version = outcome.result.latest_kernel}) = 2
    /\ Cardinality(LatestMarks(kernels)) = 1

\* The first record flagged running in the list given to the call, and the
\* record the fold selects in it, share a base version.
FoldedSharesRunningBase ==
    /\ call.kernels # <<>>
    /\ FindRunning(call.kernels) # 0
    /\ extract_base_version(
           call.kernels[FindLatest(call.kernels, 2, 1)].version)[1]
         = extract_base_version(
               call.kernels[FindRunning(call.kernels)].version)[1]

\* C22: when the record the fold selects has the running record's base
\* version, the running record is marked latest and a returned result has
\* latest_kernel equal to running_kernel.
C22_SameBaseCollapses ==
    (pc = "analyzed" /\ FoldedSharesRunningBase) =>
        /\ kernels[FindRunning(call.kernels)].is_latest
        /\ outcome.status = "returned" =>
              outcome.result.latest_kernel = outcome.result.running_kernel

\* The fold selects another record than the running one, a flavor variant
\* of the same base version, and the result names the running version.
C22_Witness ==
    /\ pc = "analyzed"
    /\ FoldedSharesRunningBase
    /\ FindLatest(call.kernels, 2, 1) # FindRunning(call.kernels)
    /\ call.kernels[FindLatest(call.kernels, 2, 1)].version
         # call.kernels[FindRunning(call.kernels)].version
    /\ outcome.status = "returned"
    /\ outcome.result.latest_kernel = outcome.result.running_kernel
    /\ kernels[FindRunning(call.kernels)].is_latest

\* The positions of the input records that have this package name.
PositionsOf(name) ==
    {i \in 1..Len(call.kernels) : call.kernels[i].package_name = name}

\* The names of the list are names of input records, at growing positions.
InInputOrder(names) ==
    /\ \A a \in 1..Len(names) : PositionsOf(names[a]) # {}
    /\ \A a, b \in 1..Len(names) :
          a < b => \A i \in PositionsOf(names[a]), j \in PositionsOf(names[b]) :
                      i < j

\* C27: in a returned result obsolete_kernels and protected_kernels are
\* each in input order and together hold the package name of every input
\* record exactly once.
C27_StablePartition ==
    (pc = "analyzed" /\ outcome.status = "returned") =>
        /\ InInputOrder(outcome.result.obsolete_kernels)
        /\ InInputOrder(outcome.result.protected_kernels)
        /\ Len(outcome.result.obsolete_kernels)
              + Len(outcome.result.protected_kernels) = Len(call.kernels)
        /\ \A i \in 1..Len(call.kernels) :
              Cardinality(
                {a \in 1..Len(outcome.result.obsolete_kernels
                                \o outcome.result.protected_kernels) :
                    (outcome.result.obsolete_kernels
                        \o outcome.result.protected_kernels)[a]
                      = call.kernels[i].package_name}) = 1

\* A returned result with two obsolete and two protected packages.
C27_Witness ==
    /\ pc = "analyzed"
    /\ outcome.status = "returned"
    /\ Len(outcome.result.obsolete_kernels) >= 2
    /\ Len(outcome.result.protected_kernels) >= 2

\* The record as it is with the latest mark of another record.
WithLatestMark(kernel, other) == [kernel EXCEPT !.is_latest = other.is_latest]

\* C28: analyze_kernels changes neither the order of the list nor the
\* version, package_name or is_running of a record, and a call that raises
\* leaves is_latest unchanged as well.
C28_FailedAnalysisLeavesInput ==
    pc = "analyzed" =>
        /\ Len(kernels) = Len(call.kernels)
        /\ \A i \in 1..Len(kernels) :
              kernels[i] = WithLatestMark(call.kernels[i], kernels[i])
        /\ outcome.status = "raised" => kernels = call.kernels

(***************************************************************************)
(* Properties of the command-line run and of remove_packages (Spec)        *)
(***************************************************************************)
ObsoleteFound ==
    /\ effects.reported
    /\ analysis.obsolete_kernels # <<>> \/ analysis.obsolete_headers # <<>>

\* C9: in a run with --dry-run, with or without --remove, no command is
\* ever run and check_sudo is never called, and the run returns 0 once the
\* analysis has reported obsolete packages; remove_packages with
\* dry_run=True returns SUCCESS for every package, without a check_sudo call
\* and without a command.
C9_DryRunRemovesNothing ==
    /\ (call.name = "main" /\ args.dry_run) =>
          /\ effects.commands = <<>>
          /\ effects.sudo_checks = 0
          /\ (pc = "returned" /\ ObsoleteFound) => exit_code = 0
    /\ (pc = "removed" /\ call.dry_run) =>
          /\ outcome.status = "returned"
          /\ outcome.results =
                [i \in 1..Len(call.packages) |->
                    <<call.packages[i], "SUCCESS">>]
          /\ effects.sudo_checks = 0
          /\ effects.commands = <<>>

\* A run with --dry-run --remove by a user who is not root, ended with 0
\* after obsolete kernels were reported.
C9_Witness ==
    /\ call.name = "main"
    /\ pc = "returned"
    /\ args.dry_run /\ args.remove
    /\ ~is_root
    /\ ObsoleteFound
    /\ analysis.obsolete_kernels # <<>>
    /\ exit_code = 0

\* The answer read at the prompt, stripped and lowered, is y or yes.
AnsweredYes ==
    /\ effects.answers # <<>>
    /\ Lower(Strip(effects.answers[Len(effects.answers)]))
          \in {<<"y">>, <<"y", "e", "s">>}

\* C10 as stated: in a run with --remove and without --yes, a command is
\* run only after the prompt was shown and answered y or yes (in any case,
\* with surrounding blanks); a run that read another answer ends with exit
\* code 0 and without a command.
C10_RemoveOnlyAfterYes ==
    (call.name = "main" /\ args.remove /\ ~args.yes) =>
        /\ effects.commands # <<>> =>
              effects.prompts >= 1 /\ AnsweredYes
        /\ (effects.answers # <<>> /\ ~AnsweredYes) =>
              /\ pc = "returned"
              /\ exit_code = 0
              /\ effects.commands = <<>>

\* C11: a process that is not root never runs a command. A run with
\* --remove and without --dry-run that found obsolete packages returns -1
\* with no prompt shown; remove_packages with a non-empty list and
\* dry_run=False raises PermissionError with no command run.
C11_NoRemovalWithoutRoot ==
    ~is_root =>
        /\ effects.commands = <<>>
        /\ (/\ call.name = "main"
            /\ pc = "returned"
            /\ args.remove /\ ~args.dry_run
            /\ ObsoleteFound) =>
                exit_code = -1 /\ effects.prompts = 0
        /\ (pc = "removed" /\ call.packages # <<>> /\ ~call.dry_run) =>
                /\ outcome.status = "raised"
                /\ outcome.exception = "PermissionError"

\* remove_packages called with packages and dry_run=False by a process that
\* is not root.
C11_Witness ==
    /\ pc = "removed"
    /\ ~is_root
    /\ call.packages # <<>>
    /\ ~call.dry_run
    /\ outcome.status = "raised"

\* The workflow of a run of main has matched the headers.
HeadersMatched ==
    call.name = "main" /\ effects.reported

\* The header package names of a kernel version, in both namings of the
\* detector.
HeaderPackagesOf(version) ==
    {LinuxHeadersPrefix \o version, ProxmoxHeadersPrefix \o version}

\* C24: once the workflow has matched the headers, no header package of
\* the running or of the latest kernel, in either naming, is in
\* obsolete_headers, and the removal list holds no package of
\* get_protected_packages(running, latest).
C24_ProtectedHeadersKept ==
    HeadersMatched =>
        /\ \A i \in 1..Len(analysis.obsolete_headers) :
              analysis.obsolete_headers[i] \notin
                  HeaderPackagesOf(analysis.running_kernel)
                      \cup HeaderPackagesOf(analysis.latest_kernel)
        /\ \A i \in 1..Len(analysis.obsolete_kernels
                              \o analysis.obsolete_headers) :
              (analysis.obsolete_kernels \o analysis.obsolete_headers)[i]
                  \notin get_protected_packages(analysis.running_kernel,
                                                analysis.latest_kernel)

\* C25: when the detector finds no installed kernel, the workflow selects
\* no package: both obsolete lists are empty, no command is run, and the
\* run returns 1, nothing to do.
C25_NoKernelsNothingSelected ==
    (HeadersMatched /\ kernels = <<>>) =>
        /\ analysis.obsolete_kernels = <<>>
        /\ analysis.obsolete_headers = <<>>
        /\ effects.commands = <<>>
        /\ pc = "returned"
        /\ exit_code = 1

\* The run has detected the running version and the installed kernels.
Detected ==
    call.name = "main" /\ "running_kernel_version" \in DOMAIN call

\* The positions of the records that have the running version.
RunningMatches ==
    {i \in 1..Len(kernels) : kernels[i].version = call.running_kernel_version}

\* The positions of the records flagged running.
RunningFlags == {i \in 1..Len(kernels) : kernels[i].is_running}

\* C26: when kernels are installed and none has the running version, no
\* record is flagged, the analysis raises and the run returns a non-zero
\* code with no prompt and no command; when a record has the running
\* version, exactly the first such record is flagged.
C26_RunningFlagByCaller ==
    Detected =>
        /\ (kernels # <<>> /\ RunningMatches = {}) =>
              /\ RunningFlags = {}
              /\ effects.prompts = 0
              /\ effects.commands = <<>>
              /\ pc # "analyze" =>
                    /\ outcome.status = "raised"
                    /\ pc = "returned"
                    /\ exit_code # 0
        /\ RunningMatches # {} =>
              /\ Cardinality(RunningFlags) = 1
              /\ \A i \in RunningFlags, j \in RunningMatches : i <= j
              /\ RunningFlags \subseteq RunningMatches

\* A run on installed kernels none of which has the running version, ended
\* with exit code 1 after the analysis raised.
C26_Witness ==
    /\ Detected
    /\ kernels # <<>>
    /\ RunningMatches = {}
    /\ RunningFlags = {}
    /\ outcome.status = "raised"
    /\ pc = "returned"
    /\ exit_code = 1
    /\ effects.prompts = 0
    /\ effects.commands = <<>>

(***************************************************************************)
(* Properties of match_headers_to_kernels (MatchSpec)                      *)
(***************************************************************************)
\* The version token of a header package: its name without linux-headers-.
HeaderToken(header) ==
    IF StartsWith(header, LinuxHeadersPrefix)
    THEN SubSeq(header, Len(LinuxHeadersPrefix) + 1, Len(header))
    ELSE header

IsCommonToken(token) == EndsWith(token, CommonSuffix)

WithoutCommon(token) == SubSeq(token, 1, Len(token) - Len(CommonSuffix))

ReportedObsolete(header) == InList(header, outcome.obsolete_headers)

\* A non-empty segment made only of lowercase letters, digits and
\* underscores.
IsPlatformSegment(segment) ==
    /\ segment # <<>>
    /\ \A i \in 1..Len(segment) :
          segment[i] \in LowerLetters \cup Digits \cup {"_"}

\* The base-version projection as the claim words it: P for a version P-S
\* whose last segment S is a platform segment, the whole version otherwise.
ProjectedBase(version) ==
    IF /\ Len(RSplitDash(version)) = 2
       /\ IsPlatformSegment(RSplitDash(version)[2])
    THEN RSplitDash(version)[1]
    ELSE version

\* C12 as stated: a -common header is reported obsolete exactly when its
\* token without -common is not the projected base of a protected version;
\* so for a protected version P-S with a platform segment S the header
\* linux-headers-P-common is not reported.
C12_CommonHeaderByProjectedBase ==
    pc = "matched" =>
        \A i \in 1..Len(call.headers) :
            (/\ StartsWith(call.headers[i], LinuxHeadersPrefix)
             /\ IsCommonToken(HeaderToken(call.headers[i]))) =>
                (ReportedObsolete(call.headers[i]) <=>
                    WithoutCommon(HeaderToken(call.headers[i])) \notin
                        {ProjectedBase(v) : v \in call.kernel_versions})

\* C13: a header whose token does not end in -common is in the output
\* exactly when the token is not one of the kernel versions, so a header of
\* a protected release in another flavor is reported.
C13_RegularHeaderByExactVersion ==
    pc = "matched" =>
        \A i \in 1..Len(call.headers) :
            ~IsCommonToken(HeaderToken(call.headers[i])) =>
                (ReportedObsolete(call.headers[i]) <=>
                    HeaderToken(call.headers[i]) \notin call.kernel_versions)

\* The generic and the lowlatency header of 5.15.0-82 matched against the
\* generic version: only the lowlatency header is reported.
C13_Witness ==
    /\ pc = "matched"
    /\ V_5_15_0_82_generic \in call.kernel_versions
    /\ InList(LinuxHeadersPrefix \o V_5_15_0_82_generic, call.headers)
    /\ outcome.obsolete_headers =
          <<LinuxHeadersPrefix \o V_5_15_0_82_lowlatency>>

(***************************************************************************)
(* Properties of compare_kernel_versions (CompareSpec)                     *)
(***************************************************************************)
\* The first index from `from` on where s has no digit, Len(s) + 1 if none.
DigitsEnd(s, from) ==
    CHOOSE e \in from..(Len(s) + 1) :
        /\ \A i \in from..(e - 1) : s[i] \in Digits
        /\ e <= Len(s) => s[e] \notin Digits

\* Where the four components of s end, when s starts with the grammar
\* digits "." digits "." digits "-" digits; <<>> otherwise.
ComponentEnds(s, e1, e2, e3, e4) ==
    IF /\ e1 > 1 /\ e1 <= Len(s) /\ s[e1] = "."
       /\ e2 > e1 + 1 /\ e2 <= Len(s) /\ s[e2] = "."
       /\ e3 > e2 + 1 /\ e3 <= Len(s) /\ s[e3] = "-"
       /\ e4 > e3 + 1
    THEN <<e1, e2, e3, e4>>
    ELSE <<>>

GrammarEnds(s) ==
    IF s = <<>> THEN <<>>
    ELSE ComponentEnds(s, DigitsEnd(s, 1),
            DigitsEnd(s, DigitsEnd(s, 1) + 1),
            DigitsEnd(s, DigitsEnd(s, DigitsEnd(s, 1) + 1) + 1),
            DigitsEnd(s, DigitsEnd(s, DigitsEnd(s,
                            DigitsEnd(s, 1) + 1) + 1) + 1))

\* The number a string of digits denotes.
Decimal(ds) ==
    LET Value[n \in 0..Len(ds)] ==
            IF n = 0 THEN 0
            ELSE 10 * Value[n - 1]
                    + (CHOOSE d \in 0..9 : CharOrder[Ord("0") + d] = ds[n])
    IN  Value[Len(ds)]

\* <<major, minor, patch, build>> of a string whose components end at ends.
Components(s, ends) ==
    << Decimal(SubSeq(s, 1, ends[1] - 1)),
       Decimal(SubSeq(s, ends[1] + 1, ends[2] - 1)),
       Decimal(SubSeq(s, ends[2] + 1, ends[3] - 1)),
       Decimal(SubSeq(s, ends[3] + 1, ends[4] - 1)) >>

\* The first index where two different sequences of equal length differ.
FirstDifference(a, b) ==
    CHOOSE k \in 1..Len(a) : a[k] # b[k] /\ \A j \in 1..(k - 1) : a[j] = b[j]

\* Sign of the lexicographic comparison of two integer tuples.
TupleSign(a, b) ==
    IF a = b THEN 0
    ELSE IF a[FirstDifference(a, b)] < b[FirstDifference(a, b)] THEN -1
    ELSE 1

\* Sign of the ordinal comparison of two strings: a proper prefix is
\* smaller, otherwise the first differing character decides.
CommonPrefix(a, b) ==
    CHOOSE n \in 0..Len(a) :
        /\ n <= Len(b)
        /\ \A j \in 1..n : a[j] = b[j]
        /\ (n < Len(a) /\ n < Len(b)) => a[n + 1] # b[n + 1]

PrefixSign(a, b, n) ==
    IF n = Len(a) /\ n = Len(b) THEN 0
    ELSE IF n = Len(a) THEN -1
    ELSE IF n = Len(b) THEN 1
    ELSE IF Ord(a[n + 1]) < Ord(b[n + 1]) THEN -1
    ELSE 1

OrdinalSign(a, b) == PrefixSign(a, b, CommonPrefix(a, b))

ReferenceSign(v1, v2, ends1, ends2) ==
    IF ends1 # <<>> /\ ends2 # <<>>
    THEN TupleSign(Components(v1, ends1), Components(v2, ends2))
    ELSE OrdinalSign(v1, v2)

ReferenceOrder(v1, v2) ==
    ReferenceSign(v1, v2, GrammarEnds(v1), GrammarEnds(v2))

\* C14: compare returns the reference ordering: the sign of the tuple
\* comparison of the four integer components when both strings start with
\* the grammar, whatever follows the build number, and the sign of the
\* ordinal comparison of the whole strings otherwise.
C14_CompareIsReferenceOrder ==
    pc = "compared" =>
        outcome.value = ReferenceOrder(call.version1, call.version2)

\* Patch 12 against patch 4 of the same release: numerically greater,
\* though the string is smaller.
C14_Witness ==
    /\ pc = "compared"
    /\ call.version1 = V_6_8_12_4_pve
    /\ call.version2 = V_6_8_4_2_pve
    /\ OrdinalSign(call.version1, call.version2) = -1
    /\ outcome.value = 1

InGrammar(v) == GrammarEnds(v) # <<>>

\* C15: on two strings of the grammar, compare(a, b) = -compare(b, a), and
\* compare(a, a) = 0.
C15_CompareAntisymmetric ==
    (pc = "compared" /\ InGrammar(call.version1) /\ InGrammar(call.version2)) =>
        /\ outcome.value =
              -compare_kernel_versions(call.version2, call.version1)
        /\ call.version1 = call.version2 => outcome.value = 0

\* Build 9 against build 10 of one release: smaller, and greater when the
\* arguments are swapped.
C15_Witness ==
    /\ pc = "compared"
    /\ call.version1 = V_6_1_0_9_amd64
    /\ call.version2 = V_6_1_0_10_amd64
    /\ outcome.value = -1
    /\ compare_kernel_versions(call.version2, call.version1) = 1

(***************************************************************************)
(* Exit codes of the command-line run (Spec)                               *)
(***************************************************************************)
\* Detection and analysis completed and reported no obsolete package.
NothingToDo ==
    /\ effects.reported
    /\ analysis.obsolete_kernels = <<>>
    /\ analysis.obsolete_headers = <<>>

\* C17 as stated: a run of main ends with exit code 1 exactly when
\* detection and analysis completed and found no obsolete kernel or header
\* package.
C17_ExitOneOnlyWhenNothingToDo ==
    (call.name = "main" /\ pc \in {"returned", "system_exit"}) =>
        (exit_code = 1 <=> NothingToDo)

LastDash ==
    IF \A i \in 1..Len(call.version) : call.version[i] # "-"
    THEN 0
    ELSE CHOOSE d \in 1..Len(call.version) :
            /\ call.version[d] = "-"
            /\ \A e \in (d + 1)..Len(call.version) : call.version[e] # "-"

\* What follows the last dash, and what precedes it.
LastSegment == SubSeq(call.version, LastDash + 1, Len(call.version))

BeforeLastDash == SubSeq(call.version, 1, LastDash - 1)

IsWordChar(c) == c \in Digits \cup LowerLetters \cup UpperLetters \cup {"_"}

\* The segment consists solely of alphanumeric and underscore characters
\* and does not begin with a digit followed by a dot.
SolelyWordChars(s) ==
    /\ \A i \in 1..Len(s) : IsWordChar(s[i])
    /\ ~(Len(s) >= 2 /\ s[1] \in Digits /\ s[2] = ".")

\* The segment holds a character other than an underscore.
HoldsAlnum(s) == \E i \in 1..Len(s) : s[i] # "_"

\* The input is recoverable from the pair returned.
Recoverable ==
    IF outcome.flavor = <<>>
    THEN outcome.base = call.version
    ELSE outcome.base \o <<"-">> \o outcome.flavor = call.version

\* C29 as stated: the version is split at its last dash exactly when what
\* follows consists solely of alphanumeric and underscore characters and
\* does not begin with a digit and a dot; otherwise the result is (v, "");
\* the input is recoverable.
C29_SplitWhenSolelyWordChars ==
    pc = "extracted" =>
        /\ IF LastDash # 0 /\ SolelyWordChars(LastSegment)
           THEN outcome.base = BeforeLastDash /\ outcome.flavor = LastSegment
           ELSE outcome.base = call.version /\ outcome.flavor = <<>>
        /\ Recoverable

\* C29, amended: the version is split at its last dash exactly when what
\* follows consists solely of alphanumeric and underscore characters and
\* holds at least one alphanumeric character; otherwise the result is
\* (v, ""); the input is recoverable.
C29_SplitWhenWordCharsWithAlnum ==
    pc = "extracted" =>
        /\ IF /\ LastDash # 0
              /\ SolelyWordChars(LastSegment)
              /\ HoldsAlnum(LastSegment)
           THEN outcome.base = BeforeLastDash /\ outcome.flavor = LastSegment
           ELSE outcome.base = call.version /\ outcome.flavor = <<>>
        /\ Recoverable

\* A version whose last segment is underscores alone, returned whole.
C29_Witness ==
    /\ pc = "extracted"
    /\ LastDash # 0
    /\ LastSegment # <<>>
    /\ SolelyWordChars(LastSegment)
    /\ ~HoldsAlnum(LastSegment)
    /\ outcome.base = call.version
    /\ outcome.flavor = <<>>

(***************************************************************************)
(* Properties of the embedded functions (EmbeddedSpec)                     *)
(***************************************************************************)
\* The two outcomes are the same result or the same error.
SameOutcome(embedded, package) ==
    /\ embedded.status = package.status
    /\ embedded.status = "returned" => embedded.result = package.result
    /\ embedded.status = "raised" =>
          /\ embedded.exception = package.exception
          /\ embedded.message = package.message

\* C30: the embedded analyze_kernels and match_headers_to_kernels give the
\* outcome of the functions of analyzer.py on every kernel list and every
\* header list.
C30_EmbeddedSameAsPackage ==
    /\ pc = "embedded_analyzed" =>
          SameOutcome(outcome, analyze_kernels(call.kernels))
    /\ pc = "embedded_matched" =>
          outcome.obsolete_headers
            = match_headers_to_kernels(call.headers, call.kernel_versions)

====
